---- MODULE Spec2Model ----
(***************************************************************************)
(* Predictive bottleneck pipeline of EventGuard AI: prediction.py          *)
(* (simulate_crowd_series, forecast_next, bottleneck_probability), the     *)
(* predictive page that evaluates it on the session's density series, and  *)
(* the alerts table of db.py; the zone alerts of geo_utils.py; the login   *)
(* of auth.py and features/auth_page.py over the users table, and the      *)
(* navigation and dispatch of core/ui.py and app.py.                       *)
(*                                                                         *)
(* Densities are integers in hundredths of a person per square metre       *)
(* (2.5 is 250). A forecast value is an exact rational <<num, den>>, den   *)
(* > 0, in the same unit; a probability is an integer number of            *)
(* hundredths, or NaN. Arithmetic is exact (the rounding error of float64  *)
(* is not modelled).                                                       *)
(***************************************************************************)
EXTENDS Integers, Sequences, FiniteSets, TLC

VARIABLES
    density_series,  \* st.session_state.sim["density_series"]
    zone,            \* st.session_state.sim["zone"]
    alerts,          \* rows of table alerts, in insertion (rowid) order
    alerts_seq,      \* sqlite_sequence entry of alerts (AUTOINCREMENT)
    pred,            \* predictive_page: pred of the last evaluation
    prob,            \* predictive_page: prob of the last evaluation
    tier,            \* branch of predictive.py:231-238 the last evaluation took
    err,             \* exception the last page run ended with, or "none"
    listed,          \* rows returned by the last list_alerts
    n_ge50,          \* history: evaluations whose prob was >= 0.5
    n_failed,        \* history: evaluations whose add_alert raised
    call,            \* the last direct call of a function, with its result
    users,           \* rows of table users, by the (lower case) email column
    auth,            \* st.session_state.auth
    pending_email,   \* st.session_state["pending_email"]
    utcnow,          \* datetime.utcnow(), in minutes
    test_mode,       \* is_test_mode()
    rendered,        \* the page the last run of main rendered
    issued,          \* history: the OTP save_otp last stored for an email, and when
    used,            \* history: OTPs complete_login accepted since that save
    begun,           \* history: begin_login calls of this session that returned true
    completed        \* history: complete_login calls of this session that returned true

authvars == <<users, auth, pending_email, utcnow, test_mode, rendered,
              issued, used, begun, completed>>

simvars == <<density_series, zone, alerts, alerts_seq, pred, prob, tier,
             err, listed, n_ge50, n_failed>>

vars == <<density_series, zone, alerts, alerts_seq, pred, prob, tier,
          err, listed, n_ge50, n_failed, call, authvars>>

-----------------------------------------------------------------------------
(* Bounds of the model *)

MaxEvals == 2
MaxRows == 2
MaxLimit == 3
MaxLen == 3
MaxSteps == 3
MaxEntities == 3
MaxZones == 2
MaxTime == 6

(* Program constants *)

MinDensity == 20
MaxDensity == 500
SimLen == 60
DefaultBase == 250
PageSteps == 20
PageThreshold == 400
HighCut == 80
MediumCut == 50
MinVideoSamples == 5
DefaultLimit == 50
\* prediction.py: def forecast_next(series, steps: int = 15) and
\* def bottleneck_probability(pred_density, threshold: float = 4.0)
DefaultSteps == 15
DefaultThreshold == 400
\* geo_utils.py:244 density_threshold = 100  # Default value
DefaultDensityThreshold == 100
\* auth.py:87 save_otp(email, otp, 5)
ExpiryMinutes == 5

(* Inputs *)

Zones == {"North Gate", "Main Stage"}
BaseDensities == {250, 390}
NoiseAmps == {0, 150}
VideoLens == {4, 5}
VideoDensities == {0, 300, 600}
SeriesVals == {0, 20, 390, 410, 600}
WindowVals == {<<20, 1>>, <<799, 2>>, <<400, 1>>, <<500, 1>>}
Thresholds == {300, 400}
SimBases == {18, 20, 250, 470, 499, 510}
NoiseStds == {0, 60}
Instants == {1, 2}
RiskLevels == {"medium", "high"}
\* Entities and zone centres lie on one meridian; a latitude is given in
\* metres of arc along it, so that the great circle distance of two points
\* is the difference of their latitudes.
EntityLats == {100, 101}
\* Rows of table zones as list_zones returns them (without the id, which is
\* the position in the listing)
ZoneRows ==
    {[name |-> "Gate", zone_type |-> "safe", center_lat |-> 0,
      radius_meters |-> 100, density_threshold |-> 1],
     [name |-> "Gate", zone_type |-> "safe", center_lat |-> 0,
      radius_meters |-> 100, density_threshold |-> 2],
     [name |-> "Gate", zone_type |-> "danger", center_lat |-> 0,
      radius_meters |-> 100, density_threshold |-> 2],
     [name |-> "Gate", zone_type |-> "restricted", center_lat |-> 0,
      radius_meters |-> 100, density_threshold |-> 1],
     [name |-> "density_threshold", zone_type |-> "safe", center_lat |-> 0,
      radius_meters |-> 100, density_threshold |-> 2],
     [name |-> "density_threshold", zone_type |-> "danger", center_lat |-> 0,
      radius_meters |-> 100, density_threshold |-> 1]}
ZoneKinds == {"sqlite3.Row", "dict"}
Emails == {"A@x", "b@x"}
StoredEmails == {"a@x", "b@x"}
Passwords == {"pw1", "pw2"}
SignupPasswords == {"pw1"}
\* str(random.randint(100000, 999999))
OTPs == {"100000", "999999"}
OtpInputs == OTPs \cup {"000000"}
\* Minutes between two interactions: up to the expiry of an OTP, or past it
TickSteps == {5, 6}
NavChoices == {"Dashboard", "Event Setup", "Predictive Bottlenecks", "AI Summaries",
               "Incidents & Dispatch", "Lost & Found", "Geo-Fencing Alerts"}

-----------------------------------------------------------------------------
(* Rationals <<num, den>> with den > 0 *)

RatLeq(a, b) == a[1] * b[2] <= b[1] * a[2]
RatEq(a, b) == a[1] * b[2] = b[1] * a[2]
RatOfInt(v) == <<v, 1>>

(* Floats that may be NaN *)

NaN == [nan |-> TRUE, v |-> 0]
Num(x) == [nan |-> FALSE, v |-> x]
GeqF(p, c) == (~p.nan) /\ p.v >= c

Ok(v) == [raised |-> "none", val |-> v]
Raise(e) == [raised |-> e, val |-> <<>>]

-----------------------------------------------------------------------------
(* prediction.py *)

\* np.clip on an integer density
clip(v, lo, hi) == IF v < lo THEN lo ELSE IF v > hi THEN hi ELSE v

clip_rat_unclipped(r, lo, hi) == r

\* np.clip on a rational density
clip_rat(r, lo, hi) ==
    IF r[1] < lo * r[2] THEN RatOfInt(lo)
    ELSE IF r[1] > hi * r[2] THEN RatOfInt(hi)
    ELSE r

\* The draws of np.random.normal(0, noise, size=n): a level for the first
\* half of the series and a level for the second half.
NoiseVec(n, a, b) == [t \in 1..n |-> IF 2 * (t - 1) < n THEN a ELSE b]

simulate_crowd_series_late_trend(n, base_density, eps) ==
    [t \in 1..n |-> clip(base_density + t + eps[t], MinDensity, MaxDensity)]

\* simulate_crowd_series(n, base_density, noise), eps being the noise drawn;
\* series[t] is the value at time index t - 1, and 0.01 * t is t hundredths.
simulate_crowd_series(n, base_density, eps) ==
    [t \in 1..n |-> clip(base_density + (t - 1) + eps[t], MinDensity, MaxDensity)]

RECURSIVE SumY(_, _)
SumY(y, k) == IF k = 0 THEN 0 ELSE y[k] + SumY(y, k - 1)

\* sum over the time indices x = 0..k-1 of (2x - (n - 1)) * y[x]
RECURSIVE SumUY(_, _)
SumUY(y, k) ==
    IF k = 0 THEN 0
    ELSE (2 * (k - 1) - (Len(y) - 1)) * y[k] + SumUY(y, k - 1)

\* LinearRegression().fit(X, y) for X = 0..n-1: the sums that determine the
\* least squares line through the points (x, y[x]).
fit(y) == [n |-> Len(y), sy |-> SumY(y, Len(y)), suy |-> SumUY(y, Len(y))]

predict_flat(m, t) == <<m.sy, m.n>>

predict_mirrored(m, t) ==
    IF m.n = 1 THEN RatOfInt(m.sy)
    ELSE <<m.sy * (m.n * m.n - 1) - 3 * m.suy * (2 * t - m.n + 1),
           m.n * (m.n * m.n - 1)>>

\* model.predict([[t]]): the fitted line at t, as a rational. With
\* u = 2x - (n-1), sum(u) = 0 and sum(u*u) = n(n*n-1)/3, so
\*   slope = 2 * sum(u*y) / sum(u*u) = 6 * sum(u*y) / (n(n*n-1))
\*   line(t) = mean(y) + slope * (t - (n-1)/2)
\*           = (sum(y)*(n*n-1) + 3*sum(u*y)*(2t-n+1)) / (n(n*n-1)).
\* A single sample gives the minimum-norm solution: slope 0 through y[0].
predict(m, t) ==
    IF m.n = 1 THEN RatOfInt(m.sy)
    ELSE <<m.sy * (m.n * m.n - 1) + 3 * m.suy * (2 * t - m.n + 1),
           m.n * (m.n * m.n - 1)>>

forecast_next_shifted(series, steps) ==
    LET n == Len(series) IN
    IF n = 0 THEN Raise("ValueError")
    ELSE IF steps <= 0 THEN Raise("ValueError")
    ELSE LET model == fit(series)
         IN Ok([i \in 1..steps |->
                  clip_rat(predict(model, n + i), MinDensity, MaxDensity)])

\* forecast_next(series, steps): fit and predict reject an array of 0
\* samples with ValueError (steps = 0 makes X_future an array of 0 samples).
forecast_next(series, steps) ==
    LET n == Len(series) IN
    IF n = 0 THEN Raise("ValueError")
    ELSE IF steps <= 0 THEN Raise("ValueError")
    ELSE LET model == fit(series)
         IN Ok([i \in 1..steps |->
                  clip_rat(predict(model, n + i - 1), MinDensity, MaxDensity)])

forecast_next_series_clipped_in_place(series, steps) ==
    [i \in DOMAIN series |-> clip(series[i], MinDensity, MaxDensity)]

\* The caller's series object after forecast_next(series, steps): line 16
\* copies it (y = np.array(series)), and lines 18-21 only bind locals.
forecast_next_series_after(series, steps) ==
    series

forecast_next_default_as_page(series) ==
    forecast_next(series, PageSteps)

\* forecast_next(series): a call without steps takes the signature's default
forecast_next_default(series) ==
    forecast_next(series, DefaultSteps)

RECURSIVE CountGeq(_, _, _)
CountGeq(w, threshold, k) ==
    IF k = 0 THEN 0
    ELSE (IF RatLeq(RatOfInt(threshold), w[k]) THEN 1 ELSE 0)
         + CountGeq(w, threshold, k - 1)

round2_truncating(c, n) == (100 * c) \div n

\* np.round(c / n, 2) in hundredths: round half to even
round2(c, n) ==
    LET q == (100 * c) \div n
        r == (100 * c) % n
    IN IF 2 * r < n THEN q
       ELSE IF 2 * r > n THEN q + 1
       ELSE IF q % 2 = 0 THEN q ELSE q + 1

bottleneck_probability_reversed(pred_density, threshold) ==
    LET n == Len(pred_density)
        c == Cardinality({i \in 1..n : RatLeq(pred_density[i], RatOfInt(threshold))})
    IN IF n = 0 THEN Ok(NaN) ELSE Ok(Num(round2(c, n)))

\* bottleneck_probability(pred_density, threshold): the mean of an empty
\* array is nan (numpy warns, it does not raise), and np.round and float
\* keep it.
bottleneck_probability(pred_density, threshold) ==
    LET n == Len(pred_density) IN
    IF n = 0 THEN Ok(NaN)
    ELSE Ok(Num(round2(CountGeq(pred_density, threshold, n), n)))

bottleneck_probability_window_thresholded(pred_density, threshold) ==
    [i \in DOMAIN pred_density |->
        IF RatLeq(RatOfInt(threshold), pred_density[i]) THEN <<1, 1>> ELSE <<0, 1>>]

\* The caller's window object after bottleneck_probability(pred_density,
\* threshold): line 26 builds a new boolean array from the comparison.
bottleneck_probability_window_after(pred_density, threshold) ==
    pred_density

\* bottleneck_probability(pred_density): a call without threshold takes the
\* signature's default
bottleneck_probability_default(pred_density) ==
    bottleneck_probability(pred_density, DefaultThreshold)

-----------------------------------------------------------------------------
(* db.py: table users; auth.py: signup, begin_login, complete_login *)

\* SQL NULL in column otp and in column otp_expiry
Null == "None"
NoExpiry == 0 - 1
NoUser == [exists |-> FALSE]
NoEmail == "None"

\* str.lower() on the emails of the model
lower(email) == IF email = "A@x" THEN "a@x" ELSE email

\* bcrypt.hashpw(password, gensalt()): the salt is not modelled
hash_password(password) == <<"bcrypt", password>>

\* bcrypt.checkpw(password, hashed)
check_password(password, hashed) == hashed = hash_password(password)

get_user_by_email(table, email) == table[lower(email)]

NextUserId(table) == Cardinality({k \in DOMAIN table : table[k].exists}) + 1

create_user(table, email, hashed_password) ==
    [table EXCEPT ![lower(email)] =
        [exists |-> TRUE, id |-> NextUserId(table), hashed_password |-> hashed_password,
         otp |-> Null, otp_expiry |-> NoExpiry]]

\* signup(email, password): result and table
signup(table, email, password) ==
    IF get_user_by_email(table, email).exists
    THEN [ret |-> FALSE, table |-> table]
    ELSE [ret |-> TRUE, table |-> create_user(table, email, hash_password(password))]

\* save_otp at the time time: UPDATE users SET otp, otp_expiry WHERE email
save_otp(table, email, otp, expiry_minutes, time) ==
    IF table[lower(email)].exists
    THEN [table EXCEPT ![lower(email)].otp = otp,
                       ![lower(email)].otp_expiry = time + expiry_minutes]
    ELSE table

clear_otp(table, email) ==
    IF table[lower(email)].exists
    THEN [table EXCEPT ![lower(email)].otp = Null,
                       ![lower(email)].otp_expiry = NoExpiry]
    ELSE table

verify_otp_unexpiring(table, email, otp, time) ==
    LET row == table[lower(email)] IN
    IF ~row.exists THEN FALSE
    ELSE IF row.otp = Null \/ row.otp_expiry = NoExpiry THEN FALSE
    ELSE row.otp = otp

verify_otp(table, email, otp, time) ==
    LET row == table[lower(email)] IN
    IF ~row.exists THEN FALSE
    ELSE IF row.otp = Null \/ row.otp_expiry = NoExpiry THEN FALSE
    ELSE IF time > row.otp_expiry THEN FALSE
    ELSE row.otp = otp

\* send_otp_email: smtp_ok tells whether the SMTP settings exist and the
\* server accepted the message
send_otp_email(test, smtp_ok) ==
    IF test THEN TRUE ELSE smtp_ok

begin_login_any_password(table, email, password, otp, time, test, smtp_ok) ==
    IF ~get_user_by_email(table, email).exists
    THEN [ret |-> FALSE, table |-> table]
    ELSE [ret |-> send_otp_email(test, smtp_ok),
          table |-> save_otp(table, email, otp, ExpiryMinutes, time)]

\* begin_login(email, password), otp being the random number drawn at line
\* 86: result and table
begin_login(table, email, password, otp, time, test, smtp_ok) ==
    LET row == get_user_by_email(table, email) IN
    IF ~row.exists THEN [ret |-> FALSE, table |-> table]
    ELSE IF ~check_password(password, row.hashed_password)
    THEN [ret |-> FALSE, table |-> table]
    ELSE [ret |-> send_otp_email(test, smtp_ok),
          table |-> save_otp(table, email, otp, ExpiryMinutes, time)]

complete_login_keeping_otp(table, email, otp, time, test) ==
    IF test THEN [ret |-> TRUE, table |-> table]
    ELSE [ret |-> verify_otp(table, email, otp, time), table |-> table]

\* complete_login(email, otp): result and table
complete_login(table, email, otp, time, test) ==
    IF test THEN [ret |-> TRUE, table |-> table]
    ELSE IF verify_otp(table, email, otp, time)
    THEN [ret |-> TRUE, table |-> clear_otp(table, email)]
    ELSE [ret |-> FALSE, table |-> table]

-----------------------------------------------------------------------------
(* app.py main and core/ui.py nav *)

LoggedOut == [logged_in |-> FALSE, email |-> NoEmail, user_id |-> 0]

\* main, lines 35-46: the page function the choice is dispatched to
dispatch(choice) ==
    IF choice = "Dashboard" THEN "dashboard_page"
    ELSE IF choice = "Event Setup" THEN "event_setup_page"
    ELSE IF choice = "Predictive Bottlenecks" THEN "predictive_page"
    ELSE IF choice = "AI Summaries" THEN "ai_summaries_page"
    ELSE IF choice = "Incidents & Dispatch" THEN "incidents_dispatch_page"
    ELSE IF choice = "Vision Anomaly Detection" THEN "vision_page"
    ELSE "none"

\* The page functions main imports and calls at lines 36-46
MainPages ==
    {"dashboard_page", "event_setup_page", "predictive_page", "ai_summaries_page",
     "incidents_dispatch_page", "vision_page"}

\* No session and an empty users table
AuthIdle ==
    /\ users = [k \in StoredEmails |-> NoUser]
    /\ auth = LoggedOut
    /\ pending_email = NoEmail
    /\ utcnow = 0
    /\ test_mode = FALSE
    /\ rendered = "none"
    /\ issued = [k \in StoredEmails |-> [otp |-> Null, at |-> NoExpiry]]
    /\ used = [k \in StoredEmails |-> {}]
    /\ begun = {}
    /\ completed = {}

\* The predictive page runs in a session that has logged in (main, line 30)
AuthSignedIn ==
    /\ users = create_user([k \in StoredEmails |-> NoUser], "A@x", hash_password("pw1"))
    /\ auth = [logged_in |-> TRUE, email |-> "A@x", user_id |-> 1]
    /\ pending_email = "A@x"
    /\ utcnow = 0
    /\ test_mode = FALSE
    /\ rendered = "predictive_page"
    /\ issued = [k \in StoredEmails |->
                    IF k = "a@x" THEN [otp |-> "100000", at |-> 0]
                    ELSE [otp |-> Null, at |-> NoExpiry]]
    /\ used = [k \in StoredEmails |-> IF k = "a@x" THEN {"100000"} ELSE {}]
    /\ begun = {[email |-> "A@x", valid |-> TRUE]}
    /\ completed = {[email |-> "A@x", begun |-> TRUE]}

-----------------------------------------------------------------------------
(* geo_utils.py: zone alerts *)

\* alert.get('entity_id') of an alert without the key
NoEntity == 0

\* haversine_distance for two points of the same meridian, in metres
haversine_distance(lat1, lat2) ==
    IF lat1 >= lat2 THEN lat1 - lat2 ELSE lat2 - lat1

is_point_in_circle(point_lat, center_lat, radius_meters) ==
    haversine_distance(point_lat, center_lat) <= radius_meters

RECURSIVE calculate_zone_density(_, _, _, _)
\* calculate_zone_density over the first k entities
calculate_zone_density(entities, zone_center_lat, zone_radius, k) ==
    IF k = 0 THEN 0
    ELSE (IF is_point_in_circle(entities[k].lat, zone_center_lat, zone_radius)
          THEN 1 ELSE 0)
         + calculate_zone_density(entities, zone_center_lat, zone_radius, k - 1)

\* 'density_threshold' in zone: a dict is asked for the key; a sqlite3.Row
\* has no __contains__, so Python iterates over the row's VALUES and
\* compares each with the string (only a TEXT column can equal it).
has_density_threshold(zone_row) ==
    IF zone_row.kind = "dict" THEN "density_threshold" \in DOMAIN zone_row
    ELSE \E k \in {"name", "zone_type"} : zone_row[k] = "density_threshold"

RECURSIVE entry_alerts(_, _, _)
\* lines 258-270 over the first k entities, in the order of the list
entry_alerts(entities, zone_row, k) ==
    IF k = 0 THEN <<>>
    ELSE LET before == entry_alerts(entities, zone_row, k - 1)
         IN IF is_point_in_circle(entities[k].lat, zone_row.center_lat, zone_row.radius_meters)
            THEN Append(before,
                        [zone_id |-> zone_row.id, alert_type |-> "unauthorized_entry",
                         entity_id |-> entities[k].id,
                         severity |-> IF zone_row.zone_type = "danger"
                                      THEN "critical" ELSE "high"])
            ELSE before

\* lines 239-270 for one zone
zone_alerts(entities, zone_row) ==
    LET density == calculate_zone_density(entities, zone_row.center_lat,
                                          zone_row.radius_meters, Len(entities))
        density_threshold == IF has_density_threshold(zone_row)
                             THEN zone_row.density_threshold
                             ELSE DefaultDensityThreshold
        exceeded == IF density > density_threshold
                    THEN <<[zone_id |-> zone_row.id, alert_type |-> "density_exceeded",
                            entity_id |-> NoEntity,
                            severity |-> IF 2 * density > 3 * density_threshold
                                         THEN "high" ELSE "medium"]>>
                    ELSE <<>>
    IN IF zone_row.zone_type \in {"restricted", "danger"}
       THEN exceeded \o entry_alerts(entities, zone_row, Len(entities))
       ELSE exceeded

RECURSIVE generate_zone_alerts_upto(_, _, _)
generate_zone_alerts_upto(entities, zones, k) ==
    IF k = 0 THEN <<>>
    ELSE generate_zone_alerts_upto(entities, zones, k - 1)
         \o zone_alerts(entities, zones[k])

generate_zone_alerts(entities, zones) ==
    generate_zone_alerts_upto(entities, zones, Len(zones))

-----------------------------------------------------------------------------
(* features/predictive.py: the branch on prob, and db.py: the alerts table *)

risk_tier_strict(p) ==
    IF (~p.nan) /\ p.v > HighCut THEN "HIGH"
    ELSE IF (~p.nan) /\ p.v > MediumCut THEN "MEDIUM"
    ELSE "LOW"

risk_tier_no_low(p) ==
    IF GeqF(p, HighCut) THEN "HIGH"
    ELSE IF GeqF(p, 0) THEN "MEDIUM"
    ELSE "LOW"

\* predictive_page, lines 231-238: the branch taken on prob
risk_tier(p) ==
    IF GeqF(p, HighCut) THEN "HIGH"
    ELSE IF GeqF(p, MediumCut) THEN "MEDIUM"
    ELSE "LOW"

risk_level(t) == IF t = "HIGH" THEN "high" ELSE "medium"

add_alert_dropped(table, seq, z, level, time) == table

add_alert_replacing(table, seq, z, level, time) ==
    <<[id |-> seq + 1, zone |-> z, risk_level |-> level, prediction_time |-> time]>>

\* INSERT INTO alerts (zone, risk_level, prediction_time): the new row gets
\* the next AUTOINCREMENT id and is the last in rowid order.
add_alert(table, seq, z, level, time) ==
    Append(table, [id |-> seq + 1, zone |-> z, risk_level |-> level,
                   prediction_time |-> time])

add_alert_outcome_swallowed(table, seq, z, level, time, db_ok) ==
    [raised |-> "none",
     table |-> IF db_ok THEN add_alert(table, seq, z, level, time) ELSE table]

\* A call of add_alert, lines 337-344, that succeeds (db_ok) or whose INSERT
\* or commit raises: nothing in add_alert catches the exception, and the
\* uncommitted row is not in the table.
add_alert_outcome(table, seq, z, level, time, db_ok) ==
    IF db_ok
    THEN [raised |-> "none", table |-> add_alert(table, seq, z, level, time)]
    ELSE [raised |-> "sqlite3.Error", table |-> table]

RECURSIVE OrderByIdDesc(_, _)
OrderByIdDesc(table, left) ==
    IF left = {} THEN <<>>
    ELSE LET m == CHOOSE i \in left : \A j \in left : table[j].id <= table[i].id
         IN <<table[m]>> \o OrderByIdDesc(table, left \ {m})

list_alerts_ascending(table, limit) ==
    IF limit < 0 \/ limit >= Len(table) THEN table ELSE SubSeq(table, 1, limit)

\* SELECT * FROM alerts ORDER BY id DESC LIMIT ?: a negative LIMIT is no limit
list_alerts(table, limit) ==
    LET rows == OrderByIdDesc(table, DOMAIN table)
    IN IF limit < 0 \/ limit >= Len(rows) THEN rows ELSE SubSeq(rows, 1, limit)

-----------------------------------------------------------------------------
(* The session and the pages *)

NoCall == [fn |-> "none"]
NoProb == Num(0)

Noises(n) == {NoiseVec(n, a, b) : a \in NoiseAmps, b \in NoiseAmps}

\* np.array(densities): one density per sampled frame, count / area
VideoSeries ==
    UNION {{NoiseVec(n, a, b) : a \in VideoDensities, b \in VideoDensities} :
           n \in VideoLens}

\* db.py:613 init_db() and core/ui.py ensure_session(): the tables exist and
\* are empty, the session holds simulate_crowd_series(60) and "North Gate".
Init ==
    /\ density_series \in
           {simulate_crowd_series(SimLen, DefaultBase, e) : e \in Noises(SimLen)}
    /\ zone = "North Gate"
    /\ alerts = <<>>
    /\ alerts_seq = 0
    /\ pred = <<>>
    /\ prob = NoProb
    /\ tier = "NONE"
    /\ err = "none"
    /\ listed = <<>>
    /\ n_ge50 = 0
    /\ n_failed = 0
    /\ call = NoCall
    /\ AuthSignedIn

\* predictive_page, lines 223-238, on series s with the zones zs the text
\* input may hold: forecast, chart, probability, branch. now is the value of
\* datetime.utcnow(), db_ok tells whether the INSERT and commit succeed.
Evaluate(s, zs) ==
    \E r \in {forecast_next(s, PageSteps)} :
    \E p \in {bottleneck_probability(r.val, PageThreshold).val} :
    \E t \in {risk_tier(p)} :
    \E z \in zs :
       /\ zone' = z
       /\ IF r.raised # "none"
          THEN /\ pred' = <<>>
               /\ prob' = NoProb
               /\ tier' = "NONE"
               /\ err' = r.raised
               /\ UNCHANGED <<alerts, alerts_seq, n_ge50, n_failed>>
          ELSE /\ pred' = r.val
               /\ prob' = p
               /\ tier' = t
               /\ n_ge50' = IF GeqF(p, MediumCut) THEN n_ge50 + 1 ELSE n_ge50
               /\ IF t \in {"HIGH", "MEDIUM"}
                  THEN \E now \in Instants, db_ok \in BOOLEAN :
                       \E o \in {add_alert_outcome(alerts, alerts_seq, z,
                                                   risk_level(t), now, db_ok)} :
                          /\ alerts' = o.table
                          /\ alerts_seq' = IF db_ok THEN alerts_seq + 1 ELSE alerts_seq
                          /\ err' = o.raised
                          /\ n_failed' = IF db_ok THEN n_failed ELSE n_failed + 1
                  ELSE /\ err' = "none"
                       /\ UNCHANGED <<alerts, alerts_seq, n_failed>>

\* A run of predictive_page triggered by the Zone text input or by a widget
\* that leaves the series alone.
PageRun ==
    /\ n_ge50 < MaxEvals
    /\ Evaluate(density_series, Zones)
    /\ listed' = <<>>
    /\ UNCHANGED <<density_series, call, authvars>>

\* A run of predictive_page with Regenerate Series clicked.
RegenerateRun(base_density, eps) ==
    /\ n_ge50 < MaxEvals
    /\ density_series' = simulate_crowd_series(SimLen, base_density, eps)
    /\ Evaluate(density_series', {zone})
    /\ listed' = <<>>
    /\ UNCHANGED <<call, authvars>>

video_accepted_nonempty(dens) ==
    Len(dens) >= 1

\* predictive.py:218, if len(dens) >= 5
video_accepted(dens) ==
    Len(dens) >= MinVideoSamples

\* A run of predictive_page with Estimate from Video clicked on an uploaded
\* file whose sampled frames gave the densities dens.
VideoRun(dens) ==
    /\ n_ge50 < MaxEvals
    /\ density_series' = IF video_accepted(dens) THEN dens ELSE density_series
    /\ Evaluate(density_series', {zone})
    /\ listed' = <<>>
    /\ UNCHANGED <<call, authvars>>

\* A run of dashboard_page: list_alerts() with the default limit.
DashboardRun ==
    /\ listed' = list_alerts(alerts, DefaultLimit)
    /\ pred' = <<>>
    /\ prob' = NoProb
    /\ tier' = "NONE"
    /\ err' = "none"
    /\ UNCHANGED <<density_series, zone, alerts, alerts_seq, n_ge50, n_failed, call,
                   authvars>>

\* A restart of the process runs init_db again: CREATE TABLE IF NOT EXISTS
\* keeps the table, and the new session gets a fresh series and zone.
Restart(eps) ==
    /\ density_series' = simulate_crowd_series(SimLen, DefaultBase, eps)
    /\ zone' = "North Gate"
    /\ pred' = <<>>
    /\ prob' = NoProb
    /\ tier' = "NONE"
    /\ err' = "none"
    /\ listed' = <<>>
    /\ UNCHANGED <<alerts, alerts_seq, n_ge50, n_failed, call, authvars>>

Next ==
    \/ PageRun
    \/ \E b \in BaseDensities, e \in Noises(SimLen) : RegenerateRun(b, e)
    \/ \E v \in VideoSeries : VideoRun(v)
    \/ DashboardRun
    \/ \E e \in Noises(SimLen) : Restart(e)

Spec == Init /\ [][Next]_vars

-----------------------------------------------------------------------------
(* Direct calls of the functions of db.py on the alerts table *)

InitDb ==
    /\ density_series = simulate_crowd_series(SimLen, DefaultBase, NoiseVec(SimLen, 0, 0))
    /\ zone = "North Gate"
    /\ alerts = <<>>
    /\ alerts_seq = 0
    /\ pred = <<>>
    /\ prob = NoProb
    /\ tier = "NONE"
    /\ err = "none"
    /\ listed = <<>>
    /\ n_ge50 = 0
    /\ n_failed = 0
    /\ call = NoCall
    /\ AuthIdle

CallAddAlert(z, level, time) ==
    /\ Len(alerts) < MaxRows
    /\ alerts' = add_alert(alerts, alerts_seq, z, level, time)
    /\ alerts_seq' = alerts_seq + 1
    /\ listed' = <<>>
    /\ call' = [fn |-> "add_alert"]
    /\ UNCHANGED <<density_series, zone, pred, prob, tier, err, n_ge50, n_failed,
                   authvars>>

CallListAlerts(limit) ==
    /\ listed' = list_alerts(alerts, limit)
    /\ call' = [fn |-> "list_alerts", limit |-> limit]
    /\ UNCHANGED <<density_series, zone, alerts, alerts_seq, pred, prob, tier, err,
                   n_ge50, n_failed, authvars>>

CallInitDb ==
    /\ listed' = <<>>
    /\ call' = [fn |-> "init_db"]
    /\ UNCHANGED <<density_series, zone, alerts, alerts_seq, pred, prob, tier, err,
                   n_ge50, n_failed, authvars>>

NextDb ==
    \/ \E z \in Zones, l \in RiskLevels, t \in Instants : CallAddAlert(z, l, t)
    \/ \E l \in (0..MaxLimit) \cup {DefaultLimit} : CallListAlerts(l)
    \/ CallInitDb

SpecDb == InitDb /\ [][NextDb]_vars

-----------------------------------------------------------------------------
(* Direct calls of the functions of prediction.py and of the risk branch *)

RECURSIVE SeqsUpTo(_, _)
SeqsUpTo(S, n) ==
    IF n = 0 THEN {<<>>}
    ELSE LET shorter == SeqsUpTo(S, n - 1)
         IN shorter \cup {Append(q, x) : q \in {w \in shorter : Len(w) = n - 1}, x \in S}

\* np.random.normal(0, noise, size=n): with noise = 0 every draw is 0.
normal_draws(n, noise) == IF noise = 0 THEN {NoiseVec(n, 0, 0)} ELSE Noises(n)

SimulateCalls ==
    UNION {{[fn |-> "simulate_crowd_series", n |-> n, base_density |-> b,
             noise |-> sd, eps |-> e, done |-> FALSE] :
               b \in SimBases, e \in normal_draws(n, sd)} :
           n \in 1..MaxLen, sd \in NoiseStds}

\* forecast_next(simulate_crowd_series(n, base_density, 0), steps), for short
\* series and for the page's 60 points and 20 steps
RoundTripCalls ==
    {[fn |-> "round_trip", n |-> n, base_density |-> b, steps |-> k, done |-> FALSE] :
        n \in (2..MaxLen) \cup {SimLen}, b \in SimBases,
        k \in (1..MaxSteps) \cup {PageSteps}}

\* bottleneck_probability on a window, and on the same window with the value
\* at one index replaced
ReplacementCalls ==
    {[fn |-> "probability_replaced", window |-> w, threshold |-> th, index |-> i,
      value |-> v, done |-> FALSE] :
        w \in SeqsUpTo(WindowVals, MaxLen) \ {<<>>}, th \in Thresholds,
        i \in 1..MaxLen, v \in WindowVals}

\* The calls made: every function of prediction.py on every input within
\* the bounds, and the risk branch on every probability.
\* The entities of the tracking state: ids by position, as
\* simulate_crowd_movement numbers them
EntityLists ==
    {[i \in DOMAIN lats |-> [id |-> i, lat |-> lats[i]]] :
        lats \in SeqsUpTo(EntityLats, MaxEntities)}

\* list_zones(active_only=True) as it is (sqlite3.Row) or converted by
\* dict(r), with the AUTOINCREMENT ids
ZoneLists ==
    {[i \in DOMAIN rows |-> rows[i] @@ [id |-> i, kind |-> kind]] :
        rows \in SeqsUpTo(ZoneRows, MaxZones), kind \in ZoneKinds}

ZoneAlertCalls ==
    {[fn |-> "generate_zone_alerts", entities |-> es, zones |-> zs, done |-> FALSE] :
        es \in EntityLists, zs \in ZoneLists}

Calls ==
    SimulateCalls
    \cup ZoneAlertCalls
    \cup {c \in ReplacementCalls : c.index <= Len(c.window)}
    \cup RoundTripCalls
    \cup {[fn |-> "forecast_next", series |-> s, steps |-> k, done |-> FALSE] :
        s \in SeqsUpTo(SeriesVals, MaxLen), k \in 0..MaxSteps}
    \cup {[fn |-> "bottleneck_probability", window |-> w, threshold |-> th, done |-> FALSE] :
        w \in SeqsUpTo(WindowVals, MaxLen), th \in Thresholds}
    \cup {[fn |-> "forecast_next_default", series |-> s, done |-> FALSE] :
        s \in SeqsUpTo(SeriesVals, MaxLen)}
    \cup {[fn |-> "bottleneck_probability_default", window |-> w, done |-> FALSE] :
        w \in SeqsUpTo(WindowVals, MaxLen)}
    \cup {[fn |-> "risk_tier", p |-> p, done |-> FALSE] :
        p \in {Num(v) : v \in 0..100} \cup {NaN}}

InitFn ==
    /\ density_series = simulate_crowd_series(SimLen, DefaultBase, NoiseVec(SimLen, 0, 0))
    /\ zone = "North Gate"
    /\ alerts = <<>>
    /\ alerts_seq = 0
    /\ pred = <<>>
    /\ prob = NoProb
    /\ tier = "NONE"
    /\ err = "none"
    /\ listed = <<>>
    /\ n_ge50 = 0
    /\ n_failed = 0
    /\ call \in Calls
    /\ AuthIdle

Returns(ret) ==
    /\ ~call.done
    /\ call' = [call EXCEPT !.done = TRUE] @@ [ret |-> ret]
    /\ UNCHANGED <<simvars, authvars>>

CallForecast ==
    /\ call.fn = "forecast_next"
    /\ ~call.done
    /\ call' = [call EXCEPT !.done = TRUE,
                            !.series = forecast_next_series_after(call.series, call.steps)]
                @@ [ret |-> forecast_next(call.series, call.steps)]
    /\ UNCHANGED <<simvars, authvars>>

CallProbability ==
    /\ call.fn = "bottleneck_probability"
    /\ ~call.done
    /\ call' = [call EXCEPT !.done = TRUE,
                            !.window = bottleneck_probability_window_after(
                                           call.window, call.threshold)]
                @@ [ret |-> bottleneck_probability(call.window, call.threshold)]
    /\ UNCHANGED <<simvars, authvars>>

CallRiskTier ==
    /\ call.fn = "risk_tier"
    /\ Returns(risk_tier(call.p))

CallRoundTrip ==
    /\ call.fn = "round_trip"
    /\ Returns(forecast_next(
           simulate_crowd_series(call.n, call.base_density, NoiseVec(call.n, 0, 0)),
           call.steps))

CallProbabilityReplaced ==
    /\ call.fn = "probability_replaced"
    /\ Returns(<<bottleneck_probability(call.window, call.threshold),
                 bottleneck_probability([call.window EXCEPT ![call.index] = call.value],
                                        call.threshold)>>)

CallSimulate ==
    /\ call.fn = "simulate_crowd_series"
    /\ Returns(simulate_crowd_series(call.n, call.base_density, call.eps))

CallForecastDefault ==
    /\ call.fn = "forecast_next_default"
    /\ Returns(forecast_next_default(call.series))

CallProbabilityDefault ==
    /\ call.fn = "bottleneck_probability_default"
    /\ Returns(bottleneck_probability_default(call.window))

CallGenerateZoneAlerts ==
    /\ call.fn = "generate_zone_alerts"
    /\ Returns(Ok(generate_zone_alerts(call.entities, call.zones)))

NextFn ==
    \/ CallForecast
    \/ CallProbability
    \/ CallRiskTier
    \/ CallSimulate
    \/ CallProbabilityReplaced
    \/ CallRoundTrip
    \/ CallForecastDefault
    \/ CallProbabilityDefault
    \/ CallGenerateZoneAlerts

SpecFn == InitFn /\ [][NextFn]_vars

-----------------------------------------------------------------------------
(* SpecAuth: a browser session on the login page and the navigation, and   *)
(* calls of begin_login and complete_login by other sessions               *)

InitAuth ==
    /\ density_series = simulate_crowd_series(SimLen, DefaultBase, NoiseVec(SimLen, 0, 0))
    /\ zone = "North Gate"
    /\ alerts = <<>>
    /\ alerts_seq = 0
    /\ pred = <<>>
    /\ prob = NoProb
    /\ tier = "NONE"
    /\ err = "none"
    /\ listed = <<>>
    /\ n_ge50 = 0
    /\ n_failed = 0
    /\ call = NoCall
    /\ users = [k \in StoredEmails |-> NoUser]
    /\ auth = LoggedOut
    /\ pending_email = NoEmail
    /\ utcnow = 0
    /\ test_mode \in BOOLEAN
    /\ rendered = "none"
    /\ issued = [k \in StoredEmails |-> [otp |-> Null, at |-> NoExpiry]]
    /\ used = [k \in StoredEmails |-> {}]
    /\ begun = {}
    /\ completed = {}

\* History: the OTP a begin_login stored in the row of key k, told by the
\* change of the row, and the OTPs accepted since
IssuedAfter(table, k) ==
    IF table[k] # users[k]
    THEN [issued EXCEPT ![k] = [otp |-> table[k].otp, at |-> utcnow]]
    ELSE issued

UsedAfterIssue(table, k) ==
    IF table[k] # users[k] THEN [used EXCEPT ![k] = {}] ELSE used

\* auth_page, lines 43-56: the sign up form, submitted with matching
\* passwords
SignupSubmit(email, password) ==
    /\ ~auth.logged_in
    /\ \E r \in {signup(users, email, password)} :
          /\ users' = r.table
          /\ call' = [fn |-> "signup", email |-> email, ret |-> r.ret]
    /\ rendered' = "auth_page"
    /\ UNCHANGED <<simvars, auth, pending_email, utcnow, test_mode, issued, used,
                   begun, completed>>

\* auth_page, lines 17-23: the login form, submitted; otp is the number
\* begin_login draws and smtp_ok the fate of the e-mail
LoginSubmit(email, password, otp, smtp_ok) ==
    /\ ~auth.logged_in
    /\ \E r \in {begin_login(users, email, password, otp, utcnow, test_mode, smtp_ok)} :
          /\ users' = r.table
          /\ pending_email' = IF r.ret THEN email ELSE pending_email
          /\ call' = [fn |-> "begin_login", email |-> email, ret |-> r.ret]
          /\ issued' = IssuedAfter(r.table, lower(email))
          /\ used' = UsedAfterIssue(r.table, lower(email))
          /\ begun' = IF r.ret
                      THEN begun \cup
                           {[email |-> email,
                             valid |-> /\ users[lower(email)].exists
                                       /\ users[lower(email)].hashed_password
                                            = <<"bcrypt", password>>]}
                      ELSE begun
    /\ rendered' = "auth_page"
    /\ UNCHANGED <<simvars, auth, utcnow, test_mode, completed>>

\* auth_page, lines 25-38: the OTP form, shown while pending_email is set,
\* submitted. On success st.rerun() runs main again, where nav's radio
\* shows its first option.
VerifySubmit(otp) ==
    /\ ~auth.logged_in
    /\ pending_email # NoEmail
    /\ \E r \in {complete_login(users, pending_email, otp, utcnow, test_mode)} :
          /\ users' = r.table
          /\ call' = [fn |-> "complete_login", email |-> pending_email, otp |-> otp,
                      ret |-> r.ret]
          /\ IF r.ret
             THEN /\ auth' = [logged_in |-> TRUE, email |-> pending_email,
                              user_id |-> get_user_by_email(users, pending_email).id]
                  /\ rendered' = dispatch("Dashboard")
                  /\ completed' = completed \cup
                        {[email |-> pending_email,
                          begun |-> [email |-> pending_email, valid |-> TRUE] \in begun]}
                  /\ used' = IF test_mode THEN used
                             ELSE [used EXCEPT ![lower(pending_email)] = @ \cup {otp}]
             ELSE /\ rendered' = "auth_page"
                  /\ UNCHANGED <<auth, completed, used>>
    /\ UNCHANGED <<simvars, pending_email, utcnow, test_mode, issued, begun>>

\* main, lines 34-46, in a session that is logged in: nav returns the
\* radio's choice, after resetting the session if Logout was clicked, and
\* main dispatches it.
NavRun(choice, logout) ==
    /\ auth.logged_in
    /\ auth' = IF logout THEN LoggedOut ELSE auth
    /\ rendered' = dispatch(choice)
    /\ call' = [fn |-> "nav", ret |-> choice]
    /\ UNCHANGED <<simvars, users, pending_email, utcnow, test_mode, issued, used,
                   begun, completed>>

\* complete_login called for another session
OtherCompleteLogin(email, otp) ==
    /\ \E r \in {complete_login(users, email, otp, utcnow, test_mode)} :
          /\ users' = r.table
          /\ call' = [fn |-> "complete_login", email |-> email, otp |-> otp,
                      ret |-> r.ret]
          /\ used' = IF r.ret /\ ~test_mode
                     THEN [used EXCEPT ![lower(email)] = @ \cup {otp}]
                     ELSE used
    /\ UNCHANGED <<simvars, auth, pending_email, utcnow, test_mode, rendered, issued,
                   begun, completed>>

\* Time passes
Tick(d) ==
    /\ utcnow + d <= MaxTime
    /\ utcnow' = utcnow + d
    /\ call' = NoCall
    /\ UNCHANGED <<simvars, users, auth, pending_email, test_mode, rendered, issued,
                   used, begun, completed>>

\* ensure_session in a new browser session: the session state is new, the
\* database is the same
NewSession ==
    /\ auth' = LoggedOut
    /\ pending_email' = NoEmail
    /\ rendered' = "none"
    /\ begun' = {}
    /\ completed' = {}
    /\ call' = NoCall
    /\ UNCHANGED <<simvars, users, utcnow, test_mode, issued, used>>

NextAuth ==
    \/ \E e \in Emails, p \in SignupPasswords : SignupSubmit(e, p)
    \/ \E e \in Emails, p \in Passwords, o \in OTPs, ok \in BOOLEAN :
          LoginSubmit(e, p, o, ok)
    \/ \E o \in OtpInputs : VerifySubmit(o)
    \/ \E c \in NavChoices, l \in BOOLEAN : NavRun(c, l)
    \/ \E e \in Emails, o \in OtpInputs : OtherCompleteLogin(e, o)
    \/ \E d \in TickSteps : Tick(d)
    \/ NewSession

SpecAuth == InitAuth /\ [][NextAuth]_vars

-----------------------------------------------------------------------------
(* Properties *)

InRange(r) == r[1] >= 20 * r[2] /\ r[1] <= 500 * r[2]

\* C1: for every series of length >= 2 and every steps >= 1, forecast_next
\* returns values and every one of them lies within [0.2, 5.0].
C1_ForecastWithinRange ==
    (call.fn = "forecast_next" /\ call.done /\ Len(call.series) >= 2 /\ call.steps >= 1)
    => /\ call.ret.raised = "none"
       /\ call.ret.val # <<>>
       /\ \A i \in DOMAIN call.ret.val : InRange(call.ret.val[i])

\* C1 witness: a forecast of a series of two or more points whose fitted
\* line leaves [0.2, 5.0] within the horizon.
C1_Witness ==
    /\ call.fn = "forecast_next" /\ call.done
    /\ Len(call.series) >= 2 /\ call.steps >= 1
    /\ \E i \in 1..call.steps :
          ~InRange(predict(fit(call.series), Len(call.series) + i - 1))

Exceeding(w, th) == {i \in DOMAIN w : w[i][1] >= th * w[i][2]}

\* C2: for every non-empty window and threshold, bottleneck_probability
\* returns (points >= threshold) / (points) rounded to two decimals: the
\* integer number of hundredths nearest to it, exactly 0.0 when no point
\* reaches the threshold and exactly 1.0 when all do.
C2_ProbabilityIsRoundedFraction ==
    (call.fn = "bottleneck_probability" /\ call.done /\ call.window # <<>>)
    => LET n == Len(call.window)
           c == Cardinality(Exceeding(call.window, call.threshold))
           h == call.ret.val
       IN /\ call.ret.raised = "none"
          /\ ~h.nan
          /\ h.v \in 0..100
          /\ 2 * (100 * c - h.v * n) <= n
          /\ 2 * (h.v * n - 100 * c) <= n
          /\ (c = 0 => h.v = 0)
          /\ (c = n => h.v = 100)

\* C2 witness: a window of three points, two of them at or above the
\* threshold, with probability 0.67.
C2_Witness ==
    /\ call.fn = "bottleneck_probability" /\ call.done
    /\ Len(call.window) = 3
    /\ Cardinality(Exceeding(call.window, call.threshold)) = 2
    /\ call.ret.val = Num(67)

\* C3: the tier of a probability p is HIGH iff p >= 0.8, MEDIUM iff
\* 0.5 <= p < 0.8 and LOW otherwise, so exactly one tier applies and 0.8 and
\* 0.5 belong to the higher tier.
C3_TierCutoffs ==
    (call.fn = "risk_tier" /\ call.done)
    => LET atLeast(c) == (~call.p.nan) /\ call.p.v >= c
       IN /\ call.ret \in {"HIGH", "MEDIUM", "LOW"}
          /\ (call.ret = "HIGH" <=> atLeast(80))
          /\ (call.ret = "MEDIUM" <=> (atLeast(50) /\ ~atLeast(80)))
          /\ (call.ret = "LOW" <=> ~atLeast(50))

\* C3 witness: the boundary 0.8 classified HIGH.
C3_Witness ==
    call.fn = "risk_tier" /\ call.done /\ call.p = Num(80) /\ call.ret = "HIGH"

LastAlertOf(z, p) ==
    /\ alerts # <<>>
    /\ alerts[Len(alerts)].zone = z
    /\ alerts[Len(alerts)].risk_level = (IF p.v >= 80 THEN "high" ELSE "medium")

\* C4 as claimed: every evaluation whose probability is >= 0.5 appends one
\* alert with the session's zone and the tier's risk level, so the number of
\* alerts equals the number of evaluations with probability >= 0.5.
C4_AlertPerRiskyEvaluation ==
    /\ Len(alerts) = n_ge50
    /\ (tier \in {"HIGH", "MEDIUM"} => LastAlertOf(zone, prob))

\* C4 amended: every evaluation whose probability is >= 0.5 and whose
\* storage append succeeds appends exactly one alert, carrying the session's
\* zone and risk_level "medium" or "high" by tier; an evaluation whose append
\* fails records none. The number of alerts equals the number of evaluations
\* with probability >= 0.5 whose append did not fail.
C4_AlertPerStoredEvaluation ==
    /\ [](Len(alerts) = n_ge50 - n_failed)
    /\ [][(n_ge50' = n_ge50 + 1 /\ n_failed' = n_failed)
            => /\ Len(alerts') = Len(alerts) + 1
               /\ SubSeq(alerts', 1, Len(alerts)) = alerts
               /\ LastAlertOf(zone, prob)'
               /\ (tier' = "HIGH" <=> prob'.v >= 80)]_vars
    /\ [][(n_failed' = n_failed + 1) => alerts' = alerts]_vars

\* C4 witness: of two evaluations with probability >= 0.5, a MEDIUM one
\* stored its alert for the zone entered and the other failed to store its.
C4_Witness ==
    /\ n_ge50 = 2
    /\ n_failed = 1
    /\ Len(alerts) = 1
    /\ alerts[1].zone = "Main Stage"
    /\ alerts[1].risk_level = "medium"

\* C11: when add_alert fails during an evaluation the failure reaches the
\* caller of the page (the run ends with the exception), the append is not
\* retried and no alert is recorded for that evaluation.
C11_StorageFailurePropagates ==
    [][(n_failed' = n_failed + 1)
         => /\ err' = "sqlite3.Error"
            /\ alerts' = alerts
            /\ alerts_seq' = alerts_seq
            /\ tier' \in {"HIGH", "MEDIUM"}]_vars

\* C11 witness: the first evaluation due an alert ended with the storage
\* error and the log is empty.
C11_Witness ==
    n_failed = 1 /\ n_ge50 = 1 /\ err = "sqlite3.Error" /\ alerts = <<>>

RECURSIVE TotalY(_, _)
TotalY(y, k) == IF k = 0 THEN 0 ELSE TotalY(y, k - 1) + y[k]

RECURSIVE TotalXY(_, _)
TotalXY(y, k) == IF k = 0 THEN 0 ELSE TotalXY(y, k - 1) + (k - 1) * y[k]

\* Ordinary least squares over the points (x, y[x]), x = 0..n-1, by the
\* normal equations: slope = OlsSlopeNum / OlsDen, and the line at t.
OlsDen(y) ==
    LET n == Len(y)
    IN n * (((n - 1) * n * (2 * n - 1)) \div 6) - ((n * (n - 1)) \div 2) * ((n * (n - 1)) \div 2)

OlsSlopeNum(y) ==
    LET n == Len(y)
    IN n * TotalXY(y, n) - ((n * (n - 1)) \div 2) * TotalY(y, n)

OlsLine(y, t) ==
    LET n == Len(y)
    IN <<TotalY(y, n) * OlsDen(y) - OlsSlopeNum(y) * ((n * (n - 1)) \div 2)
            + OlsSlopeNum(y) * n * t,
         n * OlsDen(y)>>

Clamped(r) ==
    IF r[1] < 20 * r[2] THEN <<20, 1>>
    ELSE IF r[1] > 500 * r[2] THEN <<500, 1>>
    ELSE r

IsForecastOf(val, y, steps) ==
    /\ Len(val) = steps
    /\ \A i \in 1..steps : RatEq(val[i], Clamped(OlsLine(y, Len(y) + i - 1)))

\* C12 as claimed: for every series of length >= 2 and every steps >= 0,
\* forecast_next returns exactly steps values, the i-th the least squares
\* line at index len(series) + i, clamped.
C12_WindowOfStepsValues ==
    (call.fn = "forecast_next" /\ call.done /\ Len(call.series) >= 2 /\ call.steps >= 0)
    => /\ call.ret.raised = "none"
       /\ IsForecastOf(call.ret.val, call.series, call.steps)

\* C12 amended: for every series of length >= 2 and every steps >= 1,
\* forecast_next returns exactly steps values, the i-th the least squares
\* line at index len(series) + i, clamped; with steps = 0 it raises
\* ValueError and returns no window.
C12_WindowOfPositiveSteps ==
    (call.fn = "forecast_next" /\ call.done /\ Len(call.series) >= 2)
    => /\ (call.steps >= 1
            => /\ call.ret.raised = "none"
               /\ IsForecastOf(call.ret.val, call.series, call.steps))
       /\ (call.steps = 0 => call.ret.raised = "ValueError")

\* C12 witness: a forecast of several steps along a sloping line, with a
\* value strictly inside the range.
C12_Witness ==
    /\ call.fn = "forecast_next" /\ call.done
    /\ Len(call.series) = 3 /\ call.steps = 3
    /\ OlsSlopeNum(call.series) # 0
    /\ \E i \in 1..3 : call.ret.val[i][1] > 20 * call.ret.val[i][2]
                        /\ call.ret.val[i][1] < 500 * call.ret.val[i][2]

\* C13: with zero noise, simulate_crowd_series(n, base_density, 0) for n > 0
\* returns exactly n values, the one at time index t = 0..n-1 being
\* base_density + 0.01 * t clamped into [0.2, 5.0].
C13_ZeroNoiseIsClampedTrend ==
    (call.fn = "simulate_crowd_series" /\ call.done /\ call.noise = 0 /\ call.n > 0)
    => /\ DOMAIN call.ret = 1..call.n
       /\ \A t \in 0..(call.n - 1) :
             LET v == call.base_density + t
             IN call.ret[t + 1] = (IF v < 20 THEN 20 ELSE IF v > 500 THEN 500 ELSE v)

\* C13 witness: a zero-noise series of three values that rises from 4.99
\* and is clamped at 5.0.
C13_Witness ==
    /\ call.fn = "simulate_crowd_series" /\ call.done /\ call.noise = 0
    /\ call.n = 3 /\ call.base_density = 499
    /\ call.ret = <<499, 500, 500>>

OnTrend(val, b, n, steps) ==
    /\ Len(val) = steps
    /\ \A i \in 1..steps : RatEq(val[i], Clamped(<<b + n + i - 1, 1>>))

\* C14 as claimed: for every n >= 2, base_density and steps, the forecast of
\* a series generated with zero noise is, at each future index
\* t = n..n+steps-1, exactly base_density + 0.01 * t clamped into [0.2, 5.0].
C14_RoundTripOnTrend ==
    (call.fn = "round_trip" /\ call.done)
    => /\ call.ret.raised = "none"
       /\ OnTrend(call.ret.val, call.base_density, call.n, call.steps)

\* C14 amended: the same for every base_density >= 0.2, the lower end of the
\* range: below it the generated series is clamped up to 0.2 and its fitted
\* line is no longer base_density + 0.01 * t.
C14_RoundTripFromRange ==
    (call.fn = "round_trip" /\ call.done /\ call.base_density >= 20)
    => /\ call.ret.raised = "none"
       /\ OnTrend(call.ret.val, call.base_density, call.n, call.steps)

\* C14 witness: the round trip of 60 points from 4.7, a series that rises to
\* 5.0 and stays there, forecast 20 steps ahead at 5.0.
C14_Witness ==
    /\ call.fn = "round_trip" /\ call.done
    /\ call.n = 60 /\ call.base_density = 470 /\ call.steps = 20
    /\ \A i \in 1..20 : call.ret.val[i] = <<500, 1>>

\* C16: bottleneck_probability is monotone: replacing a single value below
\* the threshold by a value at or above it never decreases the rounded
\* probability of a non-empty window.
C16_ProbabilityMonotone ==
    (/\ call.fn = "probability_replaced" /\ call.done
     /\ call.window[call.index][1] < call.threshold * call.window[call.index][2]
     /\ call.value[1] >= call.threshold * call.value[2])
    => /\ call.ret[1].raised = "none" /\ call.ret[2].raised = "none"
       /\ ~call.ret[1].val.nan /\ ~call.ret[2].val.nan
       /\ call.ret[2].val.v >= call.ret[1].val.v

\* C16 witness: in a window of three values one below the threshold is
\* raised to it, and the probability goes from 0.33 to 0.67.
C16_Witness ==
    /\ call.fn = "probability_replaced" /\ call.done
    /\ Len(call.window) = 3
    /\ call.window[call.index][1] < call.threshold * call.window[call.index][2]
    /\ call.value[1] = call.threshold * call.value[2]
    /\ call.ret[1].val = Num(33) /\ call.ret[2].val = Num(67)

\* C17: for every series of length >= 2 the forecast window follows the sign
\* of the fitted slope, also after clamping: non-decreasing in index when
\* the slope is >= 0, non-increasing when it is <= 0.
C17_WindowFollowsSlope ==
    (call.fn = "forecast_next" /\ call.done /\ Len(call.series) >= 2 /\ call.steps >= 1)
    => LET val == call.ret.val
           slope == OlsSlopeNum(call.series)
       IN /\ call.ret.raised = "none"
          /\ Len(val) = call.steps
          /\ (slope >= 0 => \A i, j \in 1..call.steps : i < j => RatLeq(val[i], val[j]))
          /\ (slope <= 0 => \A i, j \in 1..call.steps : i < j => RatLeq(val[j], val[i]))

\* C17 witness: a falling series whose forecast falls and then stays at the
\* lower clamp.
C17_Witness ==
    /\ call.fn = "forecast_next" /\ call.done
    /\ Len(call.series) >= 2 /\ call.steps = 3
    /\ OlsSlopeNum(call.series) < 0
    /\ ~RatEq(call.ret.val[1], call.ret.val[2])
    /\ call.ret.val[3] = <<20, 1>>

IsConstant(y) == y # <<>> /\ \A i \in DOMAIN y : y[i] = y[1]

\* C18: end to end, an evaluation of a constant series whose value c lies in
\* [0.2, 5.0] and below the threshold forecasts c at every step, gives
\* probability 0.0 and tier LOW, and emits no alert.
C18_ConstantSeriesIsLow ==
    [][(/\ tier' # "NONE"
        /\ IsConstant(density_series')
        /\ density_series'[1] >= 20 /\ density_series'[1] <= 500
        /\ density_series'[1] < 400)
       => /\ Len(pred') = 20
          /\ \A i \in 1..20 : RatEq(pred'[i], <<density_series'[1], 1>>)
          /\ prob' = Num(0)
          /\ tier' = "LOW"
          /\ err' = "none"
          /\ alerts' = alerts]_vars

\* C18 witness: the constant series of 3.0 from a video was evaluated LOW
\* while the log already held an alert.
C18_Witness ==
    /\ tier = "LOW"
    /\ IsConstant(density_series) /\ density_series[1] = 300
    /\ Len(pred) = 20 /\ RatEq(pred[20], <<300, 1>>)
    /\ alerts # <<>>

Rising(y) ==
    /\ Len(y) >= 2
    /\ y[2] > y[1]
    /\ \A i \in 1..(Len(y) - 1) : y[i + 1] - y[i] = y[2] - y[1]

\* An evaluation has just run on a series rising by a fixed positive
\* increment whose last observation is at or above the page's threshold.
RisingPastThreshold ==
    /\ tier' # "NONE"
    /\ Rising(density_series')
    /\ density_series'[Len(density_series')] >= PageThreshold

HighForecast ==
    /\ pred' # <<>>
    /\ \A i \in DOMAIN pred' : RatLeq(<<PageThreshold, 1>>, pred'[i])
    /\ GeqF(prob', HighCut)
    /\ tier' = "HIGH"

OneHighAlert ==
    /\ Len(alerts') = Len(alerts) + 1
    /\ SubSeq(alerts', 1, Len(alerts)) = alerts
    /\ alerts'[Len(alerts')].risk_level = "high"
    /\ alerts'[Len(alerts')].zone = zone'

\* C19 as claimed: end to end, for a series rising by a fixed positive
\* increment whose last observations are at or above the threshold, the
\* forecast stays at or above the threshold, the probability is >= 0.8, the
\* tier is HIGH and exactly one alert with risk_level "high" is emitted.
C19_RisingSeriesAlertsHigh ==
    [][RisingPastThreshold => (HighForecast /\ OneHighAlert)]_vars

\* C19 amended: for such a series the forecast stays at or above the
\* threshold, the probability is >= 0.8 and the tier is HIGH; exactly one
\* alert with risk_level "high" is emitted when the storage append
\* succeeds, and none is recorded when it fails.
C19_RisingSeriesIsHigh ==
    [][RisingPastThreshold
         => /\ HighForecast
            /\ (err' = "none" => OneHighAlert)
            /\ (err' # "none" => alerts' = alerts)]_vars

\* C19 witness: the simulated series 3.90, 3.91, ..., 4.49 was evaluated
\* HIGH and its alert is the last row of the log.
C19_Witness ==
    /\ tier = "HIGH"
    /\ err = "none"
    /\ Rising(density_series)
    /\ density_series[1] = 390
    /\ density_series[Len(density_series)] = 449
    /\ prob = Num(100)
    /\ alerts # <<>>
    /\ alerts[Len(alerts)].risk_level = "high"
    /\ alerts[Len(alerts)].zone = zone

\* C20 as claimed: when the caller gives no horizon, forecast_next uses the
\* default horizon of 20 steps and returns 20 values.
C20_DefaultHorizonTwenty ==
    (call.fn = "forecast_next_default" /\ call.done /\ Len(call.series) >= 2)
    => /\ call.ret.raised = "none"
       /\ IsForecastOf(call.ret.val, call.series, 20)

\* C20 amended: when the caller gives no horizon, forecast_next uses the
\* default horizon of 15 steps and returns 15 values; when no threshold is
\* given, bottleneck_probability uses 4.0.
C20_DefaultHorizonFifteen ==
    /\ (call.fn = "forecast_next_default" /\ call.done /\ Len(call.series) >= 2)
       => /\ call.ret.raised = "none"
          /\ IsForecastOf(call.ret.val, call.series, 15)
    /\ (call.fn = "bottleneck_probability_default" /\ call.done
           /\ call.window # <<>>)
       => LET n == Len(call.window)
              c == Cardinality(Exceeding(call.window, 400))
              h == call.ret.val
          IN /\ call.ret.raised = "none"
             /\ ~h.nan
             /\ 2 * (100 * c - h.v * n) <= n
             /\ 2 * (h.v * n - 100 * c) <= n

\* C20 witness: a call without steps on a rising series of three points
\* returned fifteen values, the first strictly inside the range.
C20_Witness ==
    /\ call.fn = "forecast_next_default"
    /\ call.done
    /\ call.series = <<390, 410, 410>>
    /\ call.ret.raised = "none"
    /\ Len(call.ret.val) = 15
    /\ ~RatEq(call.ret.val[1], <<MinDensity, 1>>)
    /\ ~RatEq(call.ret.val[1], <<MaxDensity, 1>>)

SimulatedSeries ==
    {simulate_crowd_series(SimLen, b, e) :
        b \in BaseDensities \cup {DefaultBase}, e \in Noises(SimLen)}

\* C22: the session's density series is replaced only by Regenerate Series
\* (or the initialisation of a session) or by a video estimation that
\* produced at least 5 samples, and then as a whole: a step that changes it
\* stores a complete simulated series or the complete video series; a page
\* run with a zone edit, a video estimation with fewer than 5 samples, a forecast
\* evaluation and an alert emission leave it unchanged.
C22_SeriesReplacedInBulk ==
    [][/\ (density_series' # density_series)
           => \/ density_series' \in SimulatedSeries
              \/ (density_series' \in VideoSeries /\ Len(density_series') >= 5)
       /\ (zone' # zone /\ tier' # "NONE") => density_series' = density_series
       /\ (Len(density_series') < 5) => density_series' = density_series]_vars

\* C22 witness: a video series of five samples replaced the simulated one
\* and was evaluated, an alert being stored.
C22_Witness ==
    /\ Len(density_series) = 5
    /\ density_series \in VideoSeries
    /\ tier \in {"HIGH", "MEDIUM"}
    /\ alerts # <<>>

\* C23: in every reachable state of a session the density series has at
\* least 5 values (60 after initialisation or Regenerate, >= 5 after an
\* accepted video estimation), so no evaluation of the predictive page
\* fails forecast_next's requirement on the series length.
C23_SeriesLongEnough ==
    /\ Len(density_series) >= 5
    /\ Len(density_series) \in {5, SimLen}
    /\ err # "ValueError"
    /\ (tier # "NONE" => Len(pred) = PageSteps)

\* C23 witness: an evaluation of a series of exactly five values gave a
\* forecast window.
C23_Witness ==
    /\ Len(density_series) = 5
    /\ tier # "NONE"
    /\ Len(pred) = PageSteps

Inside(es, z) ==
    {i \in DOMAIN es : es[i].lat - z.center_lat <= z.radius_meters
                         /\ z.center_lat - es[i].lat <= z.radius_meters}

Occurrences(as, a) == Cardinality({k \in DOMAIN as : as[k] = a})

ExpectedZoneAlerts(es, zs) ==
    {[zone_id |-> zs[j].id, alert_type |-> "density_exceeded", entity_id |-> NoEntity,
      severity |-> IF 2 * Cardinality(Inside(es, zs[j])) > 3 * zs[j].density_threshold
                   THEN "high" ELSE "medium"] :
        j \in {j \in DOMAIN zs :
                  Cardinality(Inside(es, zs[j])) > zs[j].density_threshold}}
    \cup
    UNION {{[zone_id |-> zs[j].id, alert_type |-> "unauthorized_entry",
             entity_id |-> es[i].id,
             severity |-> IF zs[j].zone_type = "danger" THEN "critical" ELSE "high"] :
              i \in Inside(es, zs[j])} :
           j \in {j \in DOMAIN zs : zs[j].zone_type \in {"restricted", "danger"}}}

\* C24: generate_zone_alerts returns, for each zone, one density_exceeded
\* alert iff the number of entities inside the zone's circle is strictly
\* greater than the zone's density threshold (severity high iff the count
\* exceeds 1.5 times the threshold, otherwise medium), plus one
\* unauthorized_entry alert for each entity inside each zone of type
\* restricted or danger (critical for danger, high for restricted), and no
\* other alerts.
C24_ZoneAlertsAsSpecified ==
    (call.fn = "generate_zone_alerts" /\ call.done)
    => LET as == call.ret.val
           expected == ExpectedZoneAlerts(call.entities, call.zones)
       IN /\ call.ret.raised = "none"
          /\ \A a \in expected : Occurrences(as, a) = 1
          /\ \A k \in DOMAIN as : as[k] \in expected

\* C25: outside test mode an OTP is single-use: when complete_login(email,
\* otp) returns true the stored OTP and its expiry are cleared, and a later
\* complete_login for that email with an OTP accepted since the last one
\* was issued returns false.
C25_OtpSingleUse ==
    [][(call'.fn = "complete_login" /\ ~test_mode)
         => /\ call'.ret
                => /\ users'[lower(call'.email)].otp = Null
                   /\ users'[lower(call'.email)].otp_expiry = NoExpiry
            /\ call'.otp \in used[lower(call'.email)] => ~call'.ret]_vars

\* C25 witness: an OTP that had logged its user in was presented again
\* and rejected.
C25_Witness ==
    /\ ~test_mode
    /\ call.fn = "complete_login"
    /\ ~call.ret
    /\ call.otp \in used[lower(call.email)]
    /\ call.otp = issued[lower(call.email)].otp
    /\ utcnow <= issued[lower(call.email)].at + 5

\* C26: outside test mode complete_login(email, otp) returns true only if
\* otp is the OTP most recently issued for that email by begin_login and the
\* current time is not later than 5 minutes after it was issued; any OTP
\* for an unknown email is rejected.
C26_OnlyCurrentOtpAccepted ==
    [][(call'.fn = "complete_login" /\ ~test_mode /\ call'.ret)
         => /\ users[lower(call'.email)].exists
            /\ issued[lower(call'.email)].otp = call'.otp
            /\ issued[lower(call'.email)].at >= 0
            /\ utcnow' <= issued[lower(call'.email)].at + 5]_vars

\* C26 witness: an OTP was accepted exactly 5 minutes after it was issued.
C26_Witness ==
    /\ ~test_mode
    /\ call.fn = "complete_login"
    /\ call.ret
    /\ utcnow = issued[lower(call.email)].at + 5

\* C27: when begin_login returns false (unknown email, wrong password, or
\* the OTP e-mail could not be sent), the user's stored OTP and OTP expiry
\* are unchanged.
C27_FailedLoginKeepsOtp ==
    [][(call'.fn = "begin_login" /\ ~call'.ret)
         => /\ users'[lower(call'.email)].exists = users[lower(call'.email)].exists
            /\ users[lower(call'.email)].exists
                => /\ users'[lower(call'.email)].otp = users[lower(call'.email)].otp
                   /\ users'[lower(call'.email)].otp_expiry
                        = users[lower(call'.email)].otp_expiry]_vars

\* C28: in every reachable session state, auth.logged_in is true only if,
\* earlier in that session, begin_login returned true for auth.email (an
\* existing user with the correct password) and afterwards complete_login
\* returned true for that same email, in test mode too.
C28_LoggedInOnlyAfterBothSteps ==
    auth.logged_in
    => /\ [email |-> auth.email, valid |-> TRUE] \in begun
       /\ [email |-> auth.email, begun |-> TRUE] \in completed
       /\ users[lower(auth.email)].exists
       /\ auth.user_id = users[lower(auth.email)].id

\* C28 witness: a session in test mode is logged in as the second user
\* registered.
C28_Witness ==
    /\ test_mode
    /\ auth.logged_in
    /\ auth.email = "A@x"
    /\ auth.user_id = 2

\* C29: a protected page is rendered only while the session's
\* auth.logged_in is true at the moment of rendering; once Logout has reset
\* the session during a run, no protected page is rendered in that run.
C29_ProtectedPagesNeedLogin ==
    rendered \in MainPages => auth.logged_in

\* C30: every navigation choice that nav can return for a logged-in
\* session is dispatched by main to exactly one page, and every page main
\* can dispatch to is reachable through some navigation choice.
C30_NavigationMatchesDispatch ==
    call.fn = "nav"
    => /\ rendered \in MainPages
       /\ rendered = dispatch(call.ret)
       /\ \A page \in MainPages : \E c \in NavChoices : dispatch(c) = page

\* C5: an evaluation whose probability is below 0.5 (tier LOW) leaves the
\* alert log unchanged.
C5_LowEmitsNothing ==
    [][(tier' # "NONE" /\ ~(prob'.v >= 50)) => (tier' = "LOW" /\ alerts' = alerts)]_vars

\* C5 witness: a LOW evaluation made while the log already holds an alert.
C5_Witness ==
    tier = "LOW" /\ prob.v < 50 /\ alerts # <<>>

\* C6 as claimed: bottleneck_probability on an empty window fails with
\* EmptyForecastError and returns neither a value nor NaN.
C6_EmptyWindowFails ==
    (call.fn = "bottleneck_probability" /\ call.done /\ call.window = <<>>)
    => call.ret.raised = "EmptyForecastError"

\* C7 as claimed: forecast_next on a series of fewer than 2 points surfaces
\* an error to the caller and never returns a flat forecast.
C7_ShortSeriesFails ==
    (call.fn = "forecast_next" /\ call.done /\ Len(call.series) < 2)
    => call.ret.raised # "none"

\* C8 as claimed: every value of the session's density series lies within
\* [0.2, 5.0], whichever of simulation, Regenerate Series and video
\* estimation it came from.
C8_SeriesWithinRange ==
    \A i \in DOMAIN density_series : density_series[i] >= 20 /\ density_series[i] <= 500

\* C9: the alert log is append-only: every step keeps the rows recorded so
\* far, with the same fields and in the same order, as a prefix of the log.
C9_AppendOnly ==
    [][/\ Len(alerts') >= Len(alerts)
       /\ SubSeq(alerts', 1, Len(alerts)) = alerts]_vars

\* C9 witness: the log holds two different alerts after a page that does
\* not evaluate (the dashboard or a restart).
C9_Witness ==
    Len(alerts) = 2 /\ alerts[1].zone # alerts[2].zone /\ tier = "NONE"

\* C10: list_alerts(limit) returns the min(limit, number of alerts) most
\* recently inserted alerts, most recent first.
C10_MostRecentFirst ==
    (call.fn = "list_alerts")
    => LET n == Len(alerts)
           k == IF call.limit < n THEN call.limit ELSE n
       IN /\ Len(listed) = k
          /\ \A i \in 1..k : listed[i] = alerts[n - i + 1]

\* C10 witness: a listing cut by its limit, of a log of two alerts.
C10_Witness ==
    /\ call.fn = "list_alerts" /\ call.limit = 1
    /\ Len(alerts) = 2 /\ listed = <<alerts[2]>>

====
